---- MODULE Spec2Model ----
(***************************************************************************)
(* The 2D profile/outline geometry of turbodesigner:                       *)
(*   attachments/firetree.py  get_line, get_arc, FirtreeAttachment         *)
(*   cfd/geometry_2D.py       TurbomachineryGeometry2D                     *)
(*                                                                         *)
(* Numbers.  The code computes in IEEE doubles through numpy.  The model   *)
(* computes exactly in the field Q(sqrt 3), extended with +inf, -inf and   *)
(* NaN the way numpy produces them (division by zero and invalid           *)
(* operations give inf/NaN and a warning, never an exception).  A number   *)
(* is a tuple <<k, a, b, d>>:                                              *)
(*    k = 0   the finite value (a + b*sqrt(3))/d, d > 0, in lowest terms   *)
(*    k = 1   +inf        k = -1   -inf        k = 2   NaN                 *)
(* The sign of a zero is not tracked.  Angles are numbers in units of      *)
(* 30 degrees (pi = 6), so that cos and sin of every multiple of the unit  *)
(* lie in the field.  An angle that is not a multiple of the unit has no   *)
(* cosine in the field: evaluating it stops TLC, so every result the       *)
(* model reports is exact.                                                 *)
(***************************************************************************)
EXTENDS Integers, Sequences, FiniteSets, TLC

----------------------------------------------------------------------------
(* Exact arithmetic *)

Abs(n) == IF n < 0 THEN -n ELSE n

RECURSIVE GCD(_, _)
GCD(m, n) == IF n = 0 THEN m ELSE GCD(n, m % n)

NaN == <<2, 0, 0, 1>>
PInf == <<1, 0, 0, 1>>
NInf == <<-1, 0, 0, 1>>

\* (a + b*sqrt(3))/d in lowest terms with a positive denominator
Norm(a, b, d) ==
    LET s == IF d < 0 THEN -1 ELSE 1
        g == GCD(GCD(Abs(a), Abs(b)), Abs(d))
    IN  <<0, (s * a) \div g, (s * b) \div g, (s * d) \div g>>

Num(n) == <<0, n, 0, 1>>
Rat(n, d) == Norm(n, 0, d)
Zero == Num(0)

IsNaN(x) == x[1] = 2
IsInf(x) == x[1] = 1 \/ x[1] = -1
IsFinite(x) == x[1] = 0

\* sign of a + b*sqrt(3)
SgnAB(a, b) ==
    IF a = 0 /\ b = 0 THEN 0
    ELSE IF a >= 0 /\ b >= 0 THEN 1
    ELSE IF a <= 0 /\ b <= 0 THEN -1
    ELSE IF a > 0 THEN (IF a * a > 3 * b * b THEN 1 ELSE -1)
    ELSE (IF 3 * b * b > a * a THEN 1 ELSE -1)

\* sign of a number that is not NaN (-1, 0, 1)
Sgn(x) == IF IsInf(x) THEN x[1] ELSE SgnAB(x[2], x[3])

InfOf(s) == IF s > 0 THEN PInf ELSE NInf

Neg(x) ==
    IF IsNaN(x) THEN NaN
    ELSE IF IsInf(x) THEN InfOf(-x[1])
    ELSE <<0, -x[2], -x[3], x[4]>>

Add(x, y) ==
    IF IsNaN(x) \/ IsNaN(y) THEN NaN
    ELSE IF IsInf(x) /\ IsInf(y) THEN (IF x[1] = y[1] THEN x ELSE NaN)
    ELSE IF IsInf(x) THEN x
    ELSE IF IsInf(y) THEN y
    ELSE Norm(x[2] * y[4] + y[2] * x[4], x[3] * y[4] + y[3] * x[4], x[4] * y[4])

Sub(x, y) == Add(x, Neg(y))

Mul(x, y) ==
    IF IsNaN(x) \/ IsNaN(y) THEN NaN
    ELSE IF IsInf(x) \/ IsInf(y)
         THEN (IF Sgn(x) = 0 \/ Sgn(y) = 0 THEN NaN ELSE InfOf(Sgn(x) * Sgn(y)))
    ELSE Norm(x[2] * y[2] + 3 * x[3] * y[3], x[2] * y[3] + x[3] * y[2], x[4] * y[4])

\* 1/y for finite y # 0: the conjugate over the norm
Recip(y) == Norm(y[4] * y[2], -(y[4] * y[3]), y[2] * y[2] - 3 * y[3] * y[3])

Div(x, y) ==
    IF IsNaN(x) \/ IsNaN(y) THEN NaN
    ELSE IF IsInf(x) THEN (IF IsInf(y) THEN NaN
                           ELSE InfOf(x[1] * (IF Sgn(y) < 0 THEN -1 ELSE 1)))
    ELSE IF IsInf(y) THEN Zero
    ELSE IF Sgn(y) = 0 THEN (IF Sgn(x) = 0 THEN NaN ELSE InfOf(Sgn(x)))
    ELSE Mul(x, Recip(y))

\* IEEE comparisons: every comparison with NaN is false
Lt(x, y) == ~IsNaN(x) /\ ~IsNaN(y) /\ x # y /\
            (IF IsInf(x) \/ IsInf(y)
             THEN (x = NInf \/ y = PInf)
             ELSE Sgn(Sub(x, y)) < 0)
Le(x, y) == ~IsNaN(x) /\ ~IsNaN(y) /\ (x = y \/ Lt(x, y))
Eq(x, y) == ~IsNaN(x) /\ ~IsNaN(y) /\ x = y

Half(x) == Div(x, Num(2))
Sq(x) == Mul(x, x)

----------------------------------------------------------------------------
(* numpy on exact numbers: angles in units of 30 degrees *)

PI == Num(6)

\* an angle or ratio outside the grid has no image in Q(sqrt 3)
OffGrid(x) == CHOOSE v \in {} : v = x

IsGridAngle(t) == IsFinite(t) /\ t[3] = 0 /\ t[4] = 1

\* cos of k*30 degrees, k in 0..11
CosTab(k) ==
    CASE k \in {0} -> Num(1)
      [] k \in {1, 11} -> <<0, 0, 1, 2>>
      [] k \in {2, 10} -> <<0, 1, 0, 2>>
      [] k \in {3, 9} -> Zero
      [] k \in {4, 8} -> <<0, -1, 0, 2>>
      [] k \in {5, 7} -> <<0, 0, -1, 2>>
      [] k \in {6} -> Num(-1)

\* np.cos, np.sin, np.tan: NaN for NaN and infinite arguments
Cos(t) ==
    IF ~IsFinite(t) THEN NaN
    ELSE IF IsGridAngle(t) THEN CosTab(t[2] % 12)
    ELSE OffGrid(t)

Sin(t) ==
    IF ~IsFinite(t) THEN NaN
    ELSE IF IsGridAngle(t) THEN CosTab((t[2] - 3) % 12)
    ELSE OffGrid(t)

\* tan(pi/2) is 1.6e16 in doubles and +inf here; the code only divides by it
Tan(t) == Div(Sin(t), Cos(t))

\* np.arctan2(y, x), in (-pi, pi]
Arctan2(y, x) ==
    IF IsNaN(y) \/ IsNaN(x) THEN NaN
    ELSE IF IsInf(x) /\ IsInf(y) THEN OffGrid(<<y, x>>)
    ELSE IF IsInf(x) THEN (IF x = PInf THEN Zero
                           ELSE IF Sgn(y) < 0 THEN Neg(PI) ELSE PI)
    ELSE IF IsInf(y) THEN (IF y = PInf THEN Num(3) ELSE Num(-3))
    ELSE IF Sgn(x) = 0 /\ Sgn(y) = 0 THEN Zero
    ELSE LET on(k) == /\ Sub(Mul(x, Sin(Num(k))), Mul(y, Cos(Num(k)))) = Zero
                      /\ Sgn(Add(Mul(x, Cos(Num(k))), Mul(y, Sin(Num(k))))) > 0
         IN  IF \E k \in -5..6 : on(k)
             THEN Num(CHOOSE k \in -5..6 : on(k))
             ELSE OffGrid(<<y, x>>)

\* np.arcsin: NaN (and a warning) outside [-1, 1]
Arcsin(v) ==
    IF ~IsFinite(v) THEN NaN
    ELSE IF Lt(Num(1), v) \/ Lt(v, Num(-1)) THEN NaN
    ELSE IF \E k \in -3..3 : Sin(Num(k)) = v
         THEN Num(CHOOSE k \in -3..3 : Sin(Num(k)) = v)
         ELSE OffGrid(v)

\* np.linspace(start, stop, num, endpoint): arange(num)*step + start with
\* step = (stop - start)/div, the last sample set to stop when endpoint
Linspace(start, stop, num, endpoint) ==
    LET div == IF endpoint THEN num - 1 ELSE num
        delta == Sub(stop, start)
        step == IF div > 0 THEN Div(delta, Num(div)) ELSE delta
    IN  [i \in 1..num |->
            IF endpoint /\ num > 1 /\ i = num THEN stop
            ELSE Add(Mul(Num(i - 1), step), start)]

\* np.max: the largest element, NaN when any element is NaN
Max(s) ==
    IF \E i \in 1..Len(s) : IsNaN(s[i]) THEN NaN
    ELSE s[CHOOSE i \in 1..Len(s) : \A j \in 1..Len(s) : Le(s[j], s[i])]

\* np.min over values that are not NaN
Min(s) == s[CHOOSE i \in 1..Len(s) : \A j \in 1..Len(s) : Le(s[i], s[j])]

\* np.argmin / np.argmax over finite values: the first index of the extreme
ArgMin(s) == CHOOSE i \in 1..Len(s) :
                 /\ \A j \in 1..Len(s) : Le(s[i], s[j])
                 /\ \A j \in 1..(i - 1) : s[j] # s[i]
ArgMax(s) == CHOOSE i \in 1..Len(s) :
                 /\ \A j \in 1..Len(s) : Le(s[j], s[i])
                 /\ \A j \in 1..(i - 1) : s[j] # s[i]

\* 2D points <<x, y>> and arrays of points
Pt(x, y) == <<x, y>>
PAdd(p, q) == <<Add(p[1], q[1]), Add(p[2], q[2])>>
PSub(p, q) == <<Sub(p[1], q[1]), Sub(p[2], q[2])>>
Shift(arr, off) == [i \in 1..Len(arr) |-> PAdd(arr[i], off)]
Xs(arr) == [i \in 1..Len(arr) |-> arr[i][1]]
Ys(arr) == [i \in 1..Len(arr) |-> arr[i][2]]
Front(s) == SubSeq(s, 1, Len(s) - 1)
Last(s) == s[Len(s)]
Flip(s) == [i \in 1..Len(s) |-> s[Len(s) + 1 - i]]
PtFinite(p) == IsFinite(p[1]) /\ IsFinite(p[2])
PtEq(p, q) == Eq(p[1], q[1]) /\ Eq(p[2], q[2])

----------------------------------------------------------------------------
(* attachments/firetree.py: the primitives *)

\* Optional[int]: None is the empty tuple, a given value v is <<v>>
None == <<>>

\* mutant: the intercept with the sign of m*x2 turned
get_line_b_plus(m, point2, y_int) ==
    IF y_int = None THEN Add(point2[2], Mul(m, point2[1])) ELSE Zero

\* b = (y2 - m*x2) if y_int is None else 0
get_line_b(m, point2, y_int) ==
    IF y_int = None THEN Sub(point2[2], Mul(m, point2[1])) ELSE Zero

get_line(y, point1, point2, y_int) ==
    LET x2 == point2[1]
        y2 == point2[2]
        x1 == point1[1]
        y1 == point1[2]
        m == Div(Sub(y2, y1), Sub(x2, x1))
        b == get_line_b(m, point2, y_int)
    IN  [i \in 1..Len(y) |-> Pt(Div(Sub(y[i], b), m), y[i])]

\* angle1: the lower point's angle, a full turn added unless clockwise
get_arc_angle1(lower_point, center, is_clockwise) ==
    IF ~is_clockwise
    THEN Add(Arctan2(PSub(lower_point, center)[2], PSub(lower_point, center)[1]),
             Mul(Num(2), PI))
    ELSE Arctan2(PSub(lower_point, center)[2], PSub(lower_point, center)[1])

\* angle2: the upper point's angle
get_arc_angle2(upper_point, center) ==
    Arctan2(PSub(upper_point, center)[2], PSub(upper_point, center)[1])

\* angle = np.linspace(angle1, angle2, num_points, endpoint=endpoint)
get_arc_angle(lower_point, upper_point, center, num_points, is_clockwise, endpoint) ==
    Linspace(get_arc_angle1(lower_point, center, is_clockwise),
             get_arc_angle2(upper_point, center), num_points, endpoint)

\* the local angles of a call of get_arc
get_arc_locals(lower_point, upper_point, center, num_points, is_clockwise, endpoint) ==
    [angle1 |-> get_arc_angle1(lower_point, center, is_clockwise),
     angle2 |-> get_arc_angle2(upper_point, center),
     angle |-> get_arc_angle(lower_point, upper_point, center, num_points,
                             is_clockwise, endpoint)]

get_arc(lower_point, upper_point, radius, center, num_points, is_clockwise, endpoint) ==
    LET angle == get_arc_angle(lower_point, upper_point, center, num_points,
                               is_clockwise, endpoint)
    IN  [i \in 1..num_points |->
            PAdd(center, Pt(Mul(radius, Cos(angle[i])), Mul(radius, Sin(angle[i]))))]

----------------------------------------------------------------------------
(* attachments/firetree.py: FirtreeAttachment *)

\* the dataclass's ten scalar fields: gamma, beta are angles (units of 30
\* degrees), the lengths and radii are numbers, num_stages is an integer
Scalars(gamma, beta, ll, lu, Ri, Ro, R_dove, max_length, num_stages, disk_radius) ==
    [gamma |-> gamma, beta |-> beta, ll |-> ll, lu |-> lu, Ri |-> Ri, Ro |-> Ro,
     R_dove |-> R_dove, max_length |-> max_length, num_stages |-> num_stages,
     disk_radius |-> disk_radius]

origin == Pt(Zero, Zero)

outer_circle_lower_tangent(p) ==
    PAdd(origin, Pt(Mul(p.ll, Cos(p.beta)), Mul(p.ll, Sin(p.beta))))

outer_circle_upper_tangent(p) ==
    PAdd(outer_circle_lower_tangent(p),
         Pt(Zero, Mul(Mul(Num(2), p.Ro), Cos(p.gamma))))

outer_circle_tanget_intersect(p) ==
    PAdd(outer_circle_lower_tangent(p),
         Pt(Div(Mul(p.Ro, Sub(Num(1), Sq(Sin(p.gamma)))), Sin(p.gamma)),
            Mul(p.Ro, Cos(p.gamma))))

outer_circle_center(p) ==
    PAdd(outer_circle_lower_tangent(p),
         Pt(Mul(Neg(p.Ro), Sin(p.gamma)), Mul(p.Ro, Cos(p.gamma))))

inner_circle_lower_tangent(p) ==
    PAdd(outer_circle_upper_tangent(p),
         Pt(Mul(Neg(p.lu), Cos(p.gamma)), Mul(p.lu, Sin(p.gamma))))

inner_circle_upper_tangent(p) ==
    PAdd(inner_circle_lower_tangent(p),
         Pt(Zero, Mul(Mul(Num(2), p.Ri), Cos(p.gamma))))

inner_circle_center(p) ==
    PAdd(inner_circle_lower_tangent(p),
         Pt(Mul(p.Ri, Sin(p.beta)), Mul(p.Ri, Cos(p.beta))))

dove_circle_center(p) ==
    Pt(Mul(p.R_dove, Sin(p.beta)), Mul(Neg(p.R_dove), Cos(p.beta)))

dove_lower_point(p) == PAdd(dove_circle_center(p), Pt(Zero, Neg(p.R_dove)))

\* the reference points __post_init__ derives from the scalars p
Derived(p) ==
    [origin |-> origin,
     outer_circle_lower_tangent |-> outer_circle_lower_tangent(p),
     outer_circle_upper_tangent |-> outer_circle_upper_tangent(p),
     outer_circle_tanget_intersect |-> outer_circle_tanget_intersect(p),
     outer_circle_center |-> outer_circle_center(p),
     inner_circle_lower_tangent |-> inner_circle_lower_tangent(p),
     inner_circle_upper_tangent |-> inner_circle_upper_tangent(p),
     inner_circle_center |-> inner_circle_center(p),
     dove_circle_center |-> dove_circle_center(p),
     dove_lower_point |-> dove_lower_point(p)]

\* the object after construction: the scalar fields p and the derived points d
post_init(p) == [p |-> p, d |-> Derived(p)]

get_dove_arc(self, num_arc_points) ==
    get_arc(self.d.dove_lower_point, self.d.origin, self.p.R_dove,
            self.d.dove_circle_center, num_arc_points, FALSE, TRUE)

\* disk_center = [0, top_arc_left_point[1] - disk_radius + top_arc_height]
disk_center(self, top_arc_left_point, top_arc_height) ==
    Pt(Zero, Add(Sub(top_arc_left_point[2], self.p.disk_radius), top_arc_height))

top_arc_right_point(self, top_arc_left_point) ==
    PAdd(top_arc_left_point, Pt(self.p.max_length, Zero))

get_top_arc(self, start_point, num_arc_points) ==
    LET sector_angle == Mul(Num(2), Arcsin(Div(Half(self.p.max_length), self.p.disk_radius)))
        top_arc_left_point == start_point
        top_arc_height == Sub(self.p.disk_radius,
                              Div(Half(self.p.max_length), Tan(Half(sector_angle))))
    IN  get_arc(top_arc_left_point, top_arc_right_point(self, top_arc_left_point),
                self.p.disk_radius,
                disk_center(self, top_arc_left_point, top_arc_height),
                num_arc_points, TRUE, TRUE)

\* mutant: the inner arc appended to the end stage as well
stage_elements_all(lower_flank_line, outer_arc, upper_flank_line, inner_arc, end_stage) ==
    lower_flank_line \o outer_arc \o upper_flank_line \o inner_arc

\* stage_elements: the inner arc is appended unless end_stage
stage_elements(lower_flank_line, outer_arc, upper_flank_line, inner_arc, end_stage) ==
    lower_flank_line \o outer_arc \o upper_flank_line \o
    (IF ~end_stage THEN inner_arc ELSE <<>>)

\* lower_flank_line: two samples of the line from origin to the outer
\* circle's lower tangent, the end left out
stage_lower_flank_line(self) ==
    get_line(Linspace(self.d.origin[2], self.d.outer_circle_lower_tangent[2], 2, FALSE),
             self.d.origin, self.d.outer_circle_lower_tangent, None)

\* upper_flank_line: two samples of the line through the tangent intersect
\* and the outer circle's upper tangent, the end left out
stage_upper_flank_line(self) ==
    get_line(Linspace(self.d.outer_circle_upper_tangent[2],
                      self.d.inner_circle_lower_tangent[2], 2, FALSE),
             self.d.outer_circle_tanget_intersect, self.d.outer_circle_upper_tangent, None)

\* outer_arc: clockwise, the end left out
stage_outer_arc(self, num_arc_points) ==
    get_arc(self.d.outer_circle_lower_tangent, self.d.outer_circle_upper_tangent,
            self.p.Ro, self.d.outer_circle_center, num_arc_points, TRUE, FALSE)

\* inner_arc: not clockwise, the end included
stage_inner_arc(self, num_arc_points) ==
    get_arc(self.d.inner_circle_lower_tangent, self.d.inner_circle_upper_tangent,
            self.p.Ri, self.d.inner_circle_center, num_arc_points, FALSE, TRUE)

get_stage(self, num_arc_points, end_stage) ==
    stage_elements(stage_lower_flank_line(self), stage_outer_arc(self, num_arc_points),
                   stage_upper_flank_line(self), stage_inner_arc(self, num_arc_points),
                   end_stage)

\* the body of "for i in range(self.num_stages)", from iteration i on
RECURSIVE stage_loop(_, _, _, _, _)
stage_loop(self, stage, end_stage, i, attachment_stage_side) ==
    IF i >= self.p.num_stages THEN attachment_stage_side
    ELSE LET next_stage == IF i = self.p.num_stages - 1 THEN end_stage ELSE stage
         IN  stage_loop(self, stage, end_stage, i + 1,
                        Front(attachment_stage_side) \o
                        Shift(next_stage, Last(attachment_stage_side)))

\* mutant: the chain left at its seed stage, the loop not run
attachment_stage_side_seed(self, num_arc_points) ==
    get_stage(self, num_arc_points, FALSE)

\* attachment_stage_side after the loop of get_coords
attachment_stage_side(self, num_arc_points) ==
    LET stage == get_stage(self, num_arc_points, FALSE)
    IN  stage_loop(self, stage, get_stage(self, num_arc_points, TRUE), 0, stage)

\* mutant: the half length added instead of subtracted
attachment_center_offset_plus(self, stage_side) ==
    Pt(Add(Neg(Last(stage_side)[1]), Half(self.p.max_length)), Zero)

attachment_center_offset(self, stage_side) ==
    Pt(Sub(Neg(Last(stage_side)[1]), Half(self.p.max_length)), Zero)

\* mutant: the dove arc keeps its last point
attachment_left_side_whole(self, dove_arc, stage_side) ==
    Shift(dove_arc \o stage_side, attachment_center_offset(self, stage_side))

attachment_left_side(self, dove_arc, stage_side) ==
    Shift(Front(dove_arc) \o stage_side, attachment_center_offset(self, stage_side))

\* mutant: the point order is not reversed
attachment_right_side_unflipped(left_side) ==
    [i \in 1..Len(left_side) |->
        Pt(Mul(left_side[i][1], Num(-1)), Mul(left_side[i][2], Num(1)))]

\* np.flip(attachment_left_side, axis=0) * [-1, 1]
attachment_right_side(left_side) ==
    LET flipped == Flip(left_side)
    IN  [i \in 1..Len(flipped) |->
            Pt(Mul(flipped[i][1], Num(-1)), Mul(flipped[i][2], Num(1)))]

\* mutant: the closing point is left out
attachment_open(left_side, top_arc, right_side) ==
    Front(left_side) \o Front(top_arc) \o right_side

\* mutant: the shared end points of the left side and of the top arc are kept
attachment_joints_kept(left_side, top_arc, right_side) ==
    left_side \o top_arc \o right_side \o <<left_side[1]>>

attachment(left_side, top_arc, right_side) ==
    Front(left_side) \o Front(top_arc) \o right_side \o <<left_side[1]>>

\* mutant: the contour is shifted up by its maximum y
datum_shift_up(att) == Shift(att, Pt(Zero, Max(Ys(att))))

\* attachment + [0, -np.max(attachment[:,1])]
datum_shift(att) == Shift(att, Pt(Zero, Neg(Max(Ys(att)))))

\* get_coords, statement by statement; each operator binds the local array
\* of one assignment and hands it on, and the last one collects the locals
\* the properties read
coords_return(stage_side, left_side, right_side, top_arc, att) ==
    [attachment_stage_side |-> stage_side,
     attachment_left_side |-> left_side,
     attachment_right_side |-> right_side,
     top_arc |-> top_arc,
     attachment |-> att,
     return |-> datum_shift(att)]

coords_attachment(stage_side, left_side, right_side, top_arc) ==
    coords_return(stage_side, left_side, right_side, top_arc,
                  attachment(left_side, top_arc, right_side))

coords_top_arc(self, num_arc_points, stage_side, left_side) ==
    coords_attachment(stage_side, left_side, attachment_right_side(left_side),
                      get_top_arc(self, Last(left_side), num_arc_points))

coords_left_side(self, num_arc_points, stage_side) ==
    coords_top_arc(self, num_arc_points, stage_side,
                   attachment_left_side(self, get_dove_arc(self, num_arc_points), stage_side))

get_coords_locals(self, num_arc_points) ==
    coords_left_side(self, num_arc_points, attachment_stage_side(self, num_arc_points))

get_coords(self, num_arc_points) == get_coords_locals(self, num_arc_points).return

----------------------------------------------------------------------------
(* The attachment as a state machine: an object is constructed, then its   *)
(* builders are called in any order.  Every call returns: nothing in       *)
(* firetree.py raises, numpy turns invalid arithmetic into inf/NaN.        *)

VARIABLES
    self,    \* the FirtreeAttachment: scalar fields p, derived points d
    input,   \* the values the primitives and the outline composer are called on
    op,      \* the last call
    args,    \* its arguments
    ret,     \* the array it returned
    locals,  \* get_coords: its local arrays
    raised   \* the exception the last call raised, None when it returned

vars == <<self, input, op, args, ret, locals, raised>>

MaxStages == 3
MaxLen == 2
MaxRadius == 2

\* sample counts for which every sampled angle is a multiple of 30 degrees
ArcPointCounts == {2}

\* flank angles gamma = beta of 30 and 60 degrees
FlankAngles == {Num(1), Num(2)}

\* lower flank length, outer radius and disk radius: at most one of them
\* differs from 1
Sizes ==
    {z \in (1..MaxLen) \X (1..MaxRadius) \X (1..MaxRadius) :
        Cardinality({i \in 1..3 : z[i] # 1}) <= 1}

\* max_length is k*disk_radius: the chord's half-angle is 30 degrees for
\* k = 1 and 90 degrees for k = 2; k = 3 exceeds the diameter
ValidScalars ==
    {Scalars(a, a, Num(z[1]), Num(1), Num(1), Num(z[2]), Num(1), Num(k * z[3]), n, Num(z[3])) :
        a \in FlankAngles, z \in Sizes, k \in {1, 2}, n \in 1..MaxStages}

\* the stage count the spec's closed-contour property names beyond the bound
TallScalars ==
    {Scalars(a, a, Num(1), Num(1), Num(1), Num(1), Num(1), Num(k), 5, Num(1)) :
        a \in FlankAngles, k \in {1, 2}}

\* the values the spec's InvalidParameterError is about: a radius or length
\* that is zero or negative, no stage, a chord longer than the diameter
NonPositive == {Num(0), Num(-1)}
BaseScalars == Scalars(Num(1), Num(1), Num(2), Num(2), Num(1), Num(1), Num(3), Num(2), 2, Num(2))
InvalidScalars ==
    {[BaseScalars EXCEPT !.ll = v] : v \in NonPositive} \cup
    {[BaseScalars EXCEPT !.lu = v] : v \in NonPositive} \cup
    {[BaseScalars EXCEPT !.Ri = v] : v \in NonPositive} \cup
    {[BaseScalars EXCEPT !.Ro = v] : v \in NonPositive} \cup
    {[BaseScalars EXCEPT !.R_dove = v] : v \in NonPositive} \cup
    {[BaseScalars EXCEPT !.max_length = v] : v \in {Num(0), Num(-2)}} \cup
    {[BaseScalars EXCEPT !.disk_radius = v] : v \in NonPositive} \cup
    {[BaseScalars EXCEPT !.num_stages = n] : n \in {0, -1}} \cup
    {[BaseScalars EXCEPT !.max_length = Num(3 * R), !.disk_radius = Num(R)] : R \in 1..MaxRadius}

\* start points of get_top_arc: x an odd multiple of max_length/2
StartPoints(s) ==
    {Pt(Mul(Num(k), Half(s.p.max_length)), Num(1)) : k \in {-3, -1, 1}}

NoObject == <<>>
NoInput == <<>>

Init ==
    /\ self \in {post_init(s) : s \in ValidScalars \cup TallScalars \cup InvalidScalars}
    /\ input = NoInput
    /\ op = "__post_init__"
    /\ args = <<>>
    /\ ret = <<>>
    /\ locals = <<>>
    /\ raised = None

GetStage(num_arc_points, end_stage) ==
    /\ op' = "get_stage"
    /\ args' = [num_arc_points |-> num_arc_points, end_stage |-> end_stage]
    /\ ret' = get_stage(self, num_arc_points, end_stage)
    /\ locals' = <<>>
    /\ raised' = None
    /\ UNCHANGED <<self, input>>

GetDoveArc(num_arc_points) ==
    /\ op' = "get_dove_arc"
    /\ args' = [num_arc_points |-> num_arc_points]
    /\ ret' = get_dove_arc(self, num_arc_points)
    /\ locals' = <<>>
    /\ raised' = None
    /\ UNCHANGED <<self, input>>

GetTopArc(start_point, num_arc_points) ==
    /\ op' = "get_top_arc"
    /\ args' = [start_point |-> start_point, num_arc_points |-> num_arc_points]
    /\ ret' = get_top_arc(self, start_point, num_arc_points)
    /\ locals' = <<>>
    /\ raised' = None
    /\ UNCHANGED <<self, input>>

GetCoords(num_arc_points) ==
    /\ op' = "get_coords"
    /\ args' = [num_arc_points |-> num_arc_points]
    /\ locals' = get_coords_locals(self, num_arc_points)
    /\ ret' = locals'.return
    /\ raised' = None
    /\ UNCHANGED <<self, input>>

Next ==
    \/ \E n \in ArcPointCounts, e \in BOOLEAN : GetStage(n, e)
    \/ \E n \in ArcPointCounts : GetDoveArc(n)
    \/ \E n \in ArcPointCounts, sp \in StartPoints(self) : GetTopArc(sp, n)
    \/ \E n \in ArcPointCounts : GetCoords(n)

Spec == Init /\ [][Next]_vars

----------------------------------------------------------------------------
(* Properties of the attachment profile *)

Positive(x) == Lt(Zero, x)

\* spec section 3 and 7: all radii and lengths > 0
PositiveParams(p) ==
    /\ Positive(p.ll) /\ Positive(p.lu) /\ Positive(p.Ri) /\ Positive(p.Ro)
    /\ Positive(p.R_dove) /\ Positive(p.max_length) /\ Positive(p.disk_radius)

\* the chord max_length fits the disk: max_length <= 2*disk_radius
ChordFits(p) == Le(p.max_length, Mul(Num(2), p.disk_radius))

\* a parameter set the spec admits
ValidParams(p) == PositiveParams(p) /\ p.num_stages >= 1 /\ ChordFits(p)

CoordsOfValid ==
    op = "get_coords" /\ ValidParams(self.p) /\ args.num_arc_points >= 2

\* C1: for every valid attachment with num_stages >= 1 and num_arc_points >= 2,
\* the first and the last point of the contour get_coords returns are equal.
C1_ClosedContour ==
    CoordsOfValid => PtEq(ret[1], ret[Len(ret)])

C1_Witness ==
    /\ CoordsOfValid /\ self.p.num_stages = 5
    /\ Len(ret) > 2 /\ PtEq(ret[1], ret[Len(ret)]) /\ ~PtEq(ret[1], ret[2])

\* the one-sided left chain's length, and the place of the right side's
\* first point in the returned contour
LeftLen == Len(locals.attachment_left_side)
RightAt == LeftLen - 1 + (args.num_arc_points - 1)

\* the mirror image about the vertical axis
MirrorOf(pt) == Pt(Neg(pt[1]), pt[2])

\* C2: for every valid parameter set, point k of the right side of the
\* returned contour is the mirror image (negated x, same y) of point L-1-k of
\* the left half, L the number of points of the one-sided left chain (in the
\* returned contour the left chain's last point is the top arc's first
\* sample), and so are the local arrays of get_coords.
C2_MirrorSymmetry ==
    CoordsOfValid =>
        /\ Len(ret) = RightAt + LeftLen + 1
        /\ \A k \in 0..(LeftLen - 1) :
              /\ PtEq(ret[RightAt + 1 + k], MirrorOf(ret[LeftLen - k]))
              /\ PtEq(locals.attachment_right_side[k + 1],
                      MirrorOf(locals.attachment_left_side[LeftLen - k]))

C2_Witness ==
    /\ CoordsOfValid /\ self.p.num_stages = 2
    /\ \A k \in 0..(LeftLen - 1) : PtEq(ret[RightAt + 1 + k], MirrorOf(ret[LeftLen - k]))
    /\ \E k \in 0..(LeftLen - 1) : ~PtEq(ret[RightAt + 1 + k], ret[LeftLen - k])
    /\ ~PtEq(ret[RightAt + 1], MirrorOf(ret[1]))

\* C3: for every valid parameter set the returned contour has maximum y
\* exactly 0: every y is <= 0 and some y is 0.
C3_MaxYZero ==
    CoordsOfValid =>
        /\ \A i \in 1..Len(ret) : Le(ret[i][2], Zero)
        /\ \E i \in 1..Len(ret) : ret[i][2] = Zero

C3_Witness ==
    /\ CoordsOfValid
    /\ \E i \in 1..Len(ret) : ret[i][2] = Zero
    /\ \E i \in 1..Len(ret) : Lt(ret[i][2], Zero)
    /\ \E i \in 1..Len(locals.attachment) : Lt(Zero, locals.attachment[i][2])

\* a tooth unit of a chain at place i: a translated copy of the tooth
\* (lower flank line, outer arc, upper flank line) that get_stage builds
ToothAt(chain, i, tooth) ==
    /\ i + Len(tooth) - 1 <= Len(chain)
    /\ SubSeq(chain, i, i + Len(tooth) - 1) = Shift(tooth, chain[i])

NumTeeth(chain, tooth) == Cardinality({i \in 1..Len(chain) : ToothAt(chain, i, tooth)})

\* C4 (as claimed): the one-sided chain assembled by get_coords holds exactly
\* num_stages tooth units.
C4_ToothCountIsNumStages ==
    CoordsOfValid =>
        NumTeeth(locals.attachment_stage_side,
                 get_stage(self, args.num_arc_points, TRUE)) = self.p.num_stages

\* C5: in get_coords of a valid attachment the left chain ends at
\* x = -max_length/2, the mirrored right side begins at x = +max_length/2 at the
\* same y, and these two points are the top arc's first and last sample.
C5_TopArcSpansChord ==
    CoordsOfValid =>
        LET left_end == Last(locals.attachment_left_side)
            right_start == locals.attachment_right_side[1]
        IN  /\ left_end[1] = Neg(Half(self.p.max_length))
            /\ right_start[1] = Half(self.p.max_length)
            /\ Eq(right_start[2], left_end[2])
            /\ PtEq(locals.top_arc[1], left_end)
            /\ PtEq(Last(locals.top_arc), right_start)

C5_Witness ==
    /\ CoordsOfValid
    /\ self.p.max_length = Num(2) /\ self.p.disk_radius = Num(2)
    /\ Last(locals.attachment_left_side)[1] = Num(-1)
    /\ PtEq(locals.top_arc[1], Last(locals.attachment_left_side))
    /\ Last(locals.top_arc)[1] = Num(1)

TopArcOfValid ==
    op = "get_top_arc" /\ ValidParams(self.p) /\ args.num_arc_points >= 2

\* C6 (as claimed): for every start point, whatever its x, get_top_arc returns
\* an arc that begins at start_point and ends at start_point + (max_length, 0).
C6_TopArcFromAnyStart ==
    TopArcOfValid =>
        /\ PtEq(ret[1], args.start_point)
        /\ PtEq(Last(ret), PAdd(args.start_point, Pt(self.p.max_length, Zero)))

\* the vertical extent of a chain: max y - min y
Extent(chain) == Sub(Max(Ys(chain)), Min(Ys(chain)))

\* the local arrays of get_coords for the same parameters with one stage more
OneStageMore ==
    get_coords_locals(post_init([self.p EXCEPT !.num_stages = @ + 1]), args.num_arc_points)

\* C19: for valid parameters the vertical extent of the one-sided chain that
\* get_coords builds with num_stages = n+1 is strictly greater than with
\* num_stages = n, all other parameters the same (the stage chain, and the
\* left side made of the dove arc and the stage chain).
C19_ExtentGrowsWithStages ==
    CoordsOfValid =>
        /\ Lt(Extent(locals.attachment_stage_side),
              Extent(OneStageMore.attachment_stage_side))
        /\ Lt(Extent(locals.attachment_left_side),
              Extent(OneStageMore.attachment_left_side))

C19_Witness ==
    /\ CoordsOfValid /\ self.p.num_stages = 3
    /\ Lt(Zero, Extent(locals.attachment_left_side))
    /\ Lt(Extent(locals.attachment_left_side), Extent(OneStageMore.attachment_left_side))
    /\ Len(OneStageMore.attachment_left_side) > Len(locals.attachment_left_side)

\* the three segments of one tooth, and the number of chain points from one
\* tooth's first point to the next tooth's first point
Tooth(obj, n) ==
    stage_lower_flank_line(obj) \o stage_outer_arc(obj, n) \o stage_upper_flank_line(obj)

Period(obj, n) == Len(Tooth(obj, n)) + Len(stage_inner_arc(obj, n)) - 1

ToothStart(obj, n, t) == t * Period(obj, n) + 1

\* C21: in the one-sided chain of get_coords every tooth is lower flank line,
\* outer arc, upper flank line in this order; every tooth but the last is
\* followed by its inner arc; nothing follows the last tooth, whose last point
\* is the point the top arc starts from.
C21_TeethAndInnerArcs ==
    CoordsOfValid =>
        LET n == args.num_arc_points
            N == self.p.num_stages
            chain == locals.attachment_stage_side
            left == locals.attachment_left_side
            tooth == Tooth(self, n)
        IN  /\ \A t \in 0..N : ToothAt(chain, ToothStart(self, n, t), tooth)
            /\ \A t \in 0..(N - 1) :
                   SubSeq(chain, ToothStart(self, n, t) + Len(tooth),
                          ToothStart(self, n, t + 1) - 1)
                       = Shift(Front(stage_inner_arc(self, n)),
                               chain[ToothStart(self, n, t)])
            /\ Len(chain) = ToothStart(self, n, N) + Len(tooth) - 1
            /\ SubSeq(left, Len(left) - Len(chain) + 1, Len(left))
                   = Shift(chain, PSub(Last(left), Last(chain)))
            /\ locals.top_arc[1] = Last(left)

C21_Witness ==
    /\ CoordsOfValid /\ self.p.num_stages = 2
    /\ ToothAt(locals.attachment_stage_side,
               ToothStart(self, args.num_arc_points, 2),
               Tooth(self, args.num_arc_points))
    /\ Len(locals.attachment_stage_side)
           = 2 * Period(self, args.num_arc_points) + Len(Tooth(self, args.num_arc_points))
    /\ locals.top_arc[1] = Last(locals.attachment_left_side)

NoRepeatedPoint(arr) == \A i \in 1..(Len(arr) - 1) : ~PtEq(arr[i], arr[i + 1])

\* the left side's index of tooth t's first point: the dove arc without its
\* last point comes first
LeftToothStart(obj, n, t) == Len(get_dove_arc(obj, n)) - 1 + ToothStart(obj, n, t)

\* within tooth t of the left side every segment starts at the end point of
\* the segment before it, and the next tooth starts at the inner arc's end
ToothJoints(obj, n, left, t) ==
    LET i == LeftToothStart(obj, n, t)
        lower == Len(stage_lower_flank_line(obj))
        outer == Len(stage_outer_arc(obj, n))
        upper == Len(stage_upper_flank_line(obj))
    IN  /\ PtEq(left[i + lower], PAdd(left[i], obj.d.outer_circle_lower_tangent))
        /\ PtEq(left[i + lower + outer], PAdd(left[i], obj.d.outer_circle_upper_tangent))
        /\ t < obj.p.num_stages =>
               /\ PtEq(left[i + lower + outer + upper],
                       PAdd(left[i], obj.d.inner_circle_lower_tangent))
               /\ PtEq(left[LeftToothStart(obj, n, t + 1)],
                       PAdd(left[i], Last(stage_inner_arc(obj, n))))

\* C22: in the contour of get_coords every segment starts at the end point of
\* the segment before it (flank to arc, arc to flank, tooth to tooth, dove arc
\* to first tooth, left side to top arc, top arc to right side), and no two
\* consecutive contour points are equal.
C22_JointsOnce ==
    CoordsOfValid =>
        LET n == args.num_arc_points
            left == locals.attachment_left_side
            dove == Shift(get_dove_arc(self, n), PSub(left[1], get_dove_arc(self, n)[1]))
            att == locals.attachment
        IN  /\ \A t \in 0..self.p.num_stages : ToothJoints(self, n, left, t)
            /\ PtEq(left[LeftToothStart(self, n, 0)], Last(dove))
            /\ PtEq(locals.top_arc[1], Last(left))
            /\ PtEq(locals.attachment_right_side[1], Last(locals.top_arc))
            /\ att[Len(left)] = locals.top_arc[1]
            /\ att[Len(left) + Len(locals.top_arc) - 1] = locals.attachment_right_side[1]
            /\ NoRepeatedPoint(att)
            /\ NoRepeatedPoint(ret)

C22_Witness ==
    /\ CoordsOfValid /\ self.p.num_stages = 2
    /\ ToothJoints(self, args.num_arc_points, locals.attachment_left_side, 1)
    /\ ret[Len(locals.attachment_left_side)]
           = PAdd(Last(locals.attachment_left_side), PSub(ret[1], locals.attachment[1]))
    /\ NoRepeatedPoint(ret)

\* C25: with n = num_arc_points >= 2 and N = num_stages >= 1, get_stage
\* returns 2n+4 points (n+4 with end_stage), the left chain of get_coords has
\* (2n+3)(N+1) points and the contour get_coords returns has
\* 2(2n+3)(N+1) + n - 1 points.
C25_PointCounts ==
    /\ (op = "get_stage" /\ args.num_arc_points >= 2 /\ self.p.num_stages >= 1) =>
          Len(ret) = IF args.end_stage
                     THEN args.num_arc_points + 4
                     ELSE 2 * args.num_arc_points + 4
    /\ (op = "get_coords" /\ args.num_arc_points >= 2 /\ self.p.num_stages >= 1) =>
          /\ Len(locals.attachment_left_side)
                 = (2 * args.num_arc_points + 3) * (self.p.num_stages + 1)
          /\ Len(ret) = 2 * (2 * args.num_arc_points + 3) * (self.p.num_stages + 1)
                            + args.num_arc_points - 1

C25_Witness ==
    /\ op = "get_coords" /\ args.num_arc_points = 2 /\ self.p.num_stages = 3
    /\ Len(locals.attachment_left_side) = 28
    /\ Len(ret) = 57

----------------------------------------------------------------------------
(* Construction with any pair of flank angles. With gamma # beta the       *)
(* inner arc's angles are no multiples of 30 degrees, so get_stage and      *)
(* get_coords are not called on these objects.                              *)

FlankScalars ==
    {Scalars(g, b, Num(z[1]), Num(1), Num(1), Num(z[2]), Num(1), Num(k * z[3]), 1, Num(z[3])) :
        g \in FlankAngles, b \in FlankAngles, z \in Sizes, k \in {1, 2}}

InitFlanks ==
    /\ self \in {post_init(s) : s \in FlankScalars}
    /\ input = NoInput
    /\ op = "__post_init__"
    /\ args = <<>>
    /\ ret = <<>>
    /\ locals = <<>>
    /\ raised = None

NextFlanks ==
    \/ \E n \in ArcPointCounts : GetDoveArc(n)
    \/ \E n \in ArcPointCounts, sp \in StartPoints(self) : GetTopArc(sp, n)

SpecFlanks == InitFlanks /\ [][NextFlanks]_vars

\* the squared distance of two points
Dist2(p, q) == Add(Sq(Sub(p[1], q[1])), Sq(Sub(p[2], q[2])))

\* point p is at distance radius from center
OnCircleOf(p, center, radius) == Dist2(p, center) = Sq(radius)

\* C17 (as claimed): for every attachment with positive radii and lengths
\* and any flank angles, both points handed to each get_arc call are at the
\* declared radius from the declared center (outer circle, inner circle, dove
\* circle), and the dove arc starts at its lower point and ends at its upper
\* point.
C17_ArcPointsOnCircles ==
    PositiveParams(self.p) =>
        /\ OnCircleOf(self.d.outer_circle_lower_tangent, self.d.outer_circle_center, self.p.Ro)
        /\ OnCircleOf(self.d.outer_circle_upper_tangent, self.d.outer_circle_center, self.p.Ro)
        /\ OnCircleOf(self.d.inner_circle_lower_tangent, self.d.inner_circle_center, self.p.Ri)
        /\ OnCircleOf(self.d.inner_circle_upper_tangent, self.d.inner_circle_center, self.p.Ri)
        /\ OnCircleOf(self.d.dove_lower_point, self.d.dove_circle_center, self.p.R_dove)
        /\ OnCircleOf(self.d.origin, self.d.dove_circle_center, self.p.R_dove)
        /\ (op = "get_dove_arc" =>
               PtEq(ret[1], self.d.dove_lower_point) /\ PtEq(Last(ret), self.d.origin))

----------------------------------------------------------------------------
(* Assignment to the fields of a constructed attachment. The dataclass is  *)
(* not frozen: an assignment stores the value and runs no other code.       *)

\* the fields assigned to, and the values assigned: flank angle, radii and
\* lengths of the grid, a chord of one or two disk radii, a stage count
AssignedFields == {"gamma", "ll", "Ro", "max_length", "num_stages"}

AssignedValues(obj, name) ==
    CASE name = "gamma" -> FlankAngles
      [] name = "ll" -> {Num(l) : l \in 1..MaxLen}
      [] name = "Ro" -> {Num(r) : r \in 1..MaxRadius}
      [] name = "max_length" -> {obj.p.disk_radius, Mul(Num(2), obj.p.disk_radius)}
      [] name = "num_stages" -> {1, 2}

\* obj.name = value: the scalar is stored, the derived points are not touched
setattr(obj, name, value) == [obj EXCEPT !.p[name] = value]

InitMutable ==
    /\ self \in {post_init(Scalars(a, a, Num(1), Num(1), Num(1), Num(1), Num(1),
                                    Num(1), 1, Num(1))) : a \in FlankAngles}
    /\ input = NoInput
    /\ op = "__post_init__"
    /\ args = <<>>
    /\ ret = <<>>
    /\ locals = <<>>
    /\ raised = None

SetAttr(name, value) ==
    /\ self' = setattr(self, name, value)
    /\ op' = "__setattr__"
    /\ args' = [name |-> name, value |-> value]
    /\ ret' = None
    /\ locals' = <<>>
    /\ raised' = None
    /\ UNCHANGED input

NextMutable ==
    \/ \E name \in AssignedFields : \E value \in AssignedValues(self, name) :
          SetAttr(name, value)
    \/ \E n \in ArcPointCounts, e \in BOOLEAN : GetStage(n, e)
    \/ \E n \in ArcPointCounts : GetDoveArc(n)
    \/ \E n \in ArcPointCounts, sp \in StartPoints(self) : GetTopArc(sp, n)
    \/ \E n \in ArcPointCounts : GetCoords(n)

SpecMutable == InitMutable /\ [][NextMutable]_vars

\* C20 (as claimed): in every state reachable after construction, through
\* any sequence of builder calls and of assignments to scalar fields, the
\* stored derived reference points equal the points derived from the object's
\* current scalar parameters.
C20_DerivedPointsCurrent ==
    self.d = Derived(self.p)

\* C8 (as claimed): an attachment with a non-positive radius or length, or
\* with num_stages < 1, is rejected with InvalidParameterError: get_coords
\* returns no contour for it.
C8_InvalidRejected ==
    (op = "get_coords" /\ (~PositiveParams(self.p) \/ self.p.num_stages < 1)) =>
        (raised = "InvalidParameterError" /\ ret = <<>>)

\* C9 (as claimed): when max_length > 2*disk_radius, get_top_arc and get_coords
\* fail with InvalidParameterError instead of returning an arc.
C9_ChordTooLongRejected ==
    (op \in {"get_top_arc", "get_coords"} /\ PositiveParams(self.p) /\
     Lt(Mul(Num(2), self.p.disk_radius), self.p.max_length)) =>
        (raised = "InvalidParameterError" /\ ret = <<>>)

----------------------------------------------------------------------------
(* The primitives as a state machine: two points of a small grid and an  *)
(* array of target y-values are drawn, vertical and horizontal pairs of    *)
(* points included, and get_line is called on them.                        *)

MaxCoord == 2

GridPoints == {Pt(Num(x), Num(y)) : x \in 0..MaxCoord, y \in 0..MaxCoord}

\* the arrays of target y-values
TargetYs == {<<Num(0)>>, <<Num(0), Num(1)>>, <<Num(1), Num(2)>>}

\* the arguments of get_line
LineInputs == [y : TargetYs, point1 : GridPoints, point2 : GridPoints]

\* directions of 0, 60, ..., 300 degrees: with two samples every sampled
\* angle is a multiple of 30 degrees
ArcDirections == {Num(2 * k) : k \in -2..3}

\* the point at distance radius from center in direction t
OnCircle(center, radius, t) ==
    PAdd(center, Pt(Mul(radius, Cos(t)), Mul(radius, Sin(t))))

\* the arguments of get_arc: two points of a circle
ArcInputs ==
    {[lower_point |-> OnCircle(c, Num(r), t1), upper_point |-> OnCircle(c, Num(r), t2),
      radius |-> Num(r), center |-> c, num_points |-> 2] :
        c \in {Pt(Num(0), Num(0)), Pt(Num(1), Num(-1))}, r \in 1..MaxCoord,
        t1 \in ArcDirections, t2 \in ArcDirections}

InitPrimitives ==
    /\ self = NoObject
    /\ input \in LineInputs \cup ArcInputs
    /\ op = "none"
    /\ args = <<>>
    /\ ret = <<>>
    /\ locals = <<>>
    /\ raised = None

GetLine(y, point1, point2, y_int) ==
    /\ op' = "get_line"
    /\ args' = [y |-> y, point1 |-> point1, point2 |-> point2, y_int |-> y_int]
    /\ ret' = get_line(y, point1, point2, y_int)
    /\ raised' = None
    /\ locals' = <<>>
    /\ UNCHANGED <<self, input>>

GetArc(lower_point, upper_point, radius, center, num_points, is_clockwise, endpoint) ==
    /\ op' = "get_arc"
    /\ args' = [lower_point |-> lower_point, upper_point |-> upper_point,
                radius |-> radius, center |-> center, num_points |-> num_points,
                is_clockwise |-> is_clockwise, endpoint |-> endpoint]
    /\ locals' = get_arc_locals(lower_point, upper_point, center, num_points,
                                is_clockwise, endpoint)
    /\ ret' = get_arc(lower_point, upper_point, radius, center, num_points,
                      is_clockwise, endpoint)
    /\ raised' = None
    /\ UNCHANGED <<self, input>>

NextPrimitives ==
    \/ /\ input \in LineInputs
       /\ \E y_int \in {None, <<0>>} : GetLine(input.y, input.point1, input.point2, y_int)
    \/ /\ input \in ArcInputs
       /\ \E is_clockwise \in BOOLEAN, endpoint \in BOOLEAN :
             GetArc(input.lower_point, input.upper_point, input.radius, input.center,
                    input.num_points, is_clockwise, endpoint)

SpecPrimitives == InitPrimitives /\ [][NextPrimitives]_vars

\* C7 (as claimed): get_line called with point1.x = point2.x fails with
\* DegenerateLineError and returns nothing; it never returns a point with a
\* NaN or infinite coordinate.
C7_VerticalLineRejected ==
    (op = "get_line" /\ args.point1[1] = args.point2[1]) =>
        /\ raised = "DegenerateLineError"
        /\ ret = <<>>

\* point pt is on the line through p1 and p2 (which differ in x)
OnLineThrough(pt, p1, p2) ==
    Eq(Mul(Sub(pt[2], p1[2]), Sub(p2[1], p1[1])),
       Mul(Sub(p2[2], p1[2]), Sub(pt[1], p1[1])))

\* point pt is on the line through the origin with the slope of p1 p2
OnParallelThroughOrigin(pt, p1, p2) ==
    Eq(Mul(pt[2], Sub(p2[1], p1[1])), Mul(Sub(p2[2], p1[2]), pt[1]))

\* one point per requested y-value, carrying that y
OnePointPerY ==
    /\ Len(ret) = Len(args.y)
    /\ \A i \in 1..Len(ret) : ret[i][2] = args.y[i]

\* C18 (as claimed): for every call of get_line with point1.x # point2.x,
\* with or without y_int, the result has one point per requested y, carrying
\* that y, and every returned point is on the line through point1 and point2.
C18_PointsOnLine ==
    (op = "get_line" /\ args.point1[1] # args.point2[1]) =>
        /\ OnePointPerY
        /\ \A i \in 1..Len(ret) : OnLineThrough(ret[i], args.point1, args.point2)

\* C18 (amended): for every call of get_line with point1.x # point2.x the
\* result has one point per requested y, carrying that y; when also
\* point1.y # point2.y, every returned point is on the line through point1 and
\* point2 if y_int is not given, and on the parallel through the origin if
\* y_int is given; when point1.y = point2.y no returned x is finite.
C18_PointsOnLineOrParallel ==
    (op = "get_line" /\ args.point1[1] # args.point2[1]) =>
        /\ OnePointPerY
        /\ \A i \in 1..Len(ret) :
              IF args.point1[2] = args.point2[2]
              THEN ~IsFinite(ret[i][1])
              ELSE IF args.y_int = None
              THEN OnLineThrough(ret[i], args.point1, args.point2)
              ELSE OnParallelThroughOrigin(ret[i], args.point1, args.point2)

C18_Witness ==
    /\ op = "get_line" /\ args.y_int = None
    /\ args.point1 = Pt(Num(0), Num(2)) /\ args.point2 = Pt(Num(1), Num(0))
    /\ args.y = <<Num(0), Num(1)>>
    /\ ret = <<Pt(Num(1), Num(0)), Pt(Rat(1, 2), Num(1))>>

\* the net angular traversal of a sweep: end angle minus start angle
NetTraversal(angle1, angle2) == Sub(angle2, angle1)

\* C16 (as claimed): for every pair of boundary points and center, the sweep
\* of get_arc with is_clockwise and the sweep with the flag inverted differ and
\* their net angular traversals have opposite signs.
C16_OppositeSweeps ==
    op = "get_arc" =>
        LET mine == NetTraversal(locals.angle1, locals.angle2)
            other == NetTraversal(
                        get_arc_angle1(args.lower_point, args.center, ~args.is_clockwise),
                        get_arc_angle2(args.upper_point, args.center))
        IN  /\ mine # other
            /\ Sgn(mine) * Sgn(other) < 0

\* C27 (as claimed): for every pair of boundary points and center and for
\* both values of is_clockwise, the net angular sweep of get_arc (end angle
\* minus start angle of the interpolation) is at most one full turn in
\* magnitude.
C27_SweepWithinOneTurn ==
    op = "get_arc" =>
        /\ Le(NetTraversal(locals.angle1, locals.angle2), Mul(Num(2), PI))
        /\ Le(Neg(Mul(Num(2), PI)), NetTraversal(locals.angle1, locals.angle2))

----------------------------------------------------------------------------
(* cfd/geometry_2D.py: TurbomachineryGeometry2D                            *)
(* BladeRow, Stage and Turbomachinery are defined outside the modelled     *)
(* files; rows and stages are records of the attributes geometry_2D reads. *)

\* a BladeRow: blade spacing s and, per station, the array airfoil.get_coords()
BladeRow(s, airfoils) == [s |-> s, airfoils |-> airfoils]

\* a Stage: rotor and stator rows and the two axial gaps
Stage(rotor, stator, stage_gap, row_gap) ==
    [rotor |-> rotor, stator |-> stator, stage_gap |-> stage_gap, row_gap |-> row_gap]

CFDGeometry(top_outline, bottom_outline, airfoils) ==
    [top_outline |-> top_outline, bottom_outline |-> bottom_outline, airfoils |-> airfoils]

\* mutant: the leading point centred at mid-height plus half a spacing
airfoil_offset_above(airfoil, airfoil_leading_pnt, leading_edge_gap, height, blade_spacing) ==
    Pt(Sub(leading_edge_gap, Min(Xs(airfoil))),
       Add(Add(Neg(airfoil_leading_pnt[2]), Half(height)), Half(blade_spacing)))

\* airfoil_offset of row_geometry
airfoil_offset(airfoil, airfoil_leading_pnt, leading_edge_gap, height, blade_spacing) ==
    Pt(Sub(leading_edge_gap, Min(Xs(airfoil))),
       Sub(Add(Neg(airfoil_leading_pnt[2]), Half(height)), Half(blade_spacing)))

\* mutant: the top outline without the airfoil's rise
row_top_outline_level(leading_edge_gap, trailing_edge_gap, height, airfoil_width, rise) ==
    <<Pt(Zero, Half(height)),
      Pt(leading_edge_gap, Half(height)),
      Pt(Add(leading_edge_gap, airfoil_width), Half(height)),
      Pt(Add(Add(leading_edge_gap, airfoil_width), trailing_edge_gap), Half(height))>>

row_top_outline(leading_edge_gap, trailing_edge_gap, height, airfoil_width, rise) ==
    <<Pt(Zero, Half(height)),
      Pt(leading_edge_gap, Half(height)),
      Pt(Add(leading_edge_gap, airfoil_width), Add(Half(height), rise)),
      Pt(Add(Add(leading_edge_gap, airfoil_width), trailing_edge_gap), Add(Half(height), rise))>>

\* mutant: the bottom outline without the airfoil's rise
row_bottom_outline_level(leading_edge_gap, trailing_edge_gap, height, airfoil_width, rise) ==
    <<Pt(Add(Add(leading_edge_gap, airfoil_width), trailing_edge_gap), Half(Neg(height))),
      Pt(Add(leading_edge_gap, airfoil_width), Half(Neg(height))),
      Pt(leading_edge_gap, Half(Neg(height))),
      Pt(Zero, Half(Neg(height)))>>

row_bottom_outline(leading_edge_gap, trailing_edge_gap, height, airfoil_width, rise) ==
    <<Pt(Add(Add(leading_edge_gap, airfoil_width), trailing_edge_gap), Add(Half(Neg(height)), rise)),
      Pt(Add(leading_edge_gap, airfoil_width), Add(Half(Neg(height)), rise)),
      Pt(leading_edge_gap, Half(Neg(height))),
      Pt(Zero, Half(Neg(height)))>>

row_geometry(row, station_number, leading_edge_gap, trailing_edge_gap, num_blades) ==
    LET blade_spacing == row.s
        height == Mul(blade_spacing, Num(num_blades))
        airfoil == row.airfoils[station_number + 1]
        airfoil_width == Sub(Max(Xs(airfoil)), Min(Xs(airfoil)))
        airfoil_leading_pnt == airfoil[ArgMin(Xs(airfoil))]
        airfoil_trailing_pnt == airfoil[ArgMax(Xs(airfoil))]
        offset == airfoil_offset(airfoil, airfoil_leading_pnt, leading_edge_gap,
                                 height, blade_spacing)
        airfoils == [i \in 1..num_blades |->
                        Shift(Shift(airfoil, offset),
                              Pt(Neg(Zero), Neg(Mul(Num(i - 1), blade_spacing))))]
        airfoil_trailing_height_offset == Sub(airfoil_trailing_pnt[2], airfoil_leading_pnt[2])
    IN  CFDGeometry(
            row_top_outline(leading_edge_gap, trailing_edge_gap, height, airfoil_width,
                            airfoil_trailing_height_offset),
            row_bottom_outline(leading_edge_gap, trailing_edge_gap, height, airfoil_width,
                               airfoil_trailing_height_offset),
            airfoils)

\* stator_airfoil = rotor_geometry.airfoils[0]   (line 100)
stator_airfoil(rotor_geometry, stator_geometry) == rotor_geometry.airfoils[1]

stator_offset(rotor_geometry, stator_geometry) ==
    LET rotor_airfoil == rotor_geometry.airfoils[1]
        stator_af == stator_airfoil(rotor_geometry, stator_geometry)
        rotor_airfoil_trailing_pnt == rotor_airfoil[ArgMax(Xs(rotor_airfoil))]
        stator_airfoil_leading_pnt == stator_af[ArgMin(Xs(stator_af))]
    IN  Pt(Max(Xs(rotor_geometry.top_outline)),
           Sub(rotor_airfoil_trailing_pnt[2], stator_airfoil_leading_pnt[2]))

\* the CFDGeometry of a stage from the geometries of its two rows
stage_concat(rotor_geometry, stator_geometry, offset) ==
    CFDGeometry(
        rotor_geometry.top_outline \o Shift(stator_geometry.top_outline, offset),
        Shift(stator_geometry.bottom_outline, offset) \o rotor_geometry.bottom_outline,
        rotor_geometry.airfoils \o
            [i \in 1..Len(stator_geometry.airfoils) |-> Shift(stator_geometry.airfoils[i], offset)])

stage_rows(rotor_geometry, stator_geometry) ==
    stage_concat(rotor_geometry, stator_geometry, stator_offset(rotor_geometry, stator_geometry))

stage_geometry(stage, next_stage, station_number, num_blades) ==
    stage_rows(
        row_geometry(stage.rotor, station_number, Half(stage.stage_gap),
                     Half(stage.row_gap), num_blades),
        row_geometry(stage.stator, station_number, Half(stage.row_gap),
                     Half(next_stage.stage_gap), num_blades))

\* mutant: every stage is built with itself as next_stage
outline_next_stage_self(turbomachinery, i) == turbomachinery.stages[i + 1]

\* next_stage = stages[i+1] if i+1 < N_stg else stage    (i counts from 0)
outline_next_stage(turbomachinery, i) ==
    IF i + 1 < turbomachinery.N_stg
    THEN turbomachinery.stages[i + 2]
    ELSE turbomachinery.stages[i + 1]

\* mutant: the offset taken from the accumulated outline's least x
stage_outline_offset_min(turbomachinery_top_outline) ==
    Pt(Min(Xs(turbomachinery_top_outline)), Zero)

\* stage_outline_offset = [max(turbomachinery_top_outline[:, 0]), 0]
stage_outline_offset(turbomachinery_top_outline) ==
    Pt(Max(Xs(turbomachinery_top_outline)), Zero)

\* mutant: the stage's bottom outline appended to the accumulated one
outline_step_appended(i, geometry, top, bottom) ==
    IF i = 0
    THEN [stage_geometry |-> geometry,
          stage_outline_offset |-> None,
          turbomachinery_top_outline |-> geometry.top_outline,
          turbomachinery_bottom_outline |-> geometry.bottom_outline]
    ELSE [stage_geometry |-> geometry,
          stage_outline_offset |-> <<stage_outline_offset(top)>>,
          turbomachinery_top_outline |->
              top \o Shift(geometry.top_outline, stage_outline_offset(top)),
          turbomachinery_bottom_outline |->
              bottom \o Shift(geometry.bottom_outline, stage_outline_offset(top))]

\* the loop variables after iteration i, from the stage's geometry and the
\* outlines accumulated before it
outline_step(i, geometry, top, bottom) ==
    IF i = 0
    THEN [stage_geometry |-> geometry,
          stage_outline_offset |-> None,
          turbomachinery_top_outline |-> geometry.top_outline,
          turbomachinery_bottom_outline |-> geometry.bottom_outline]
    ELSE [stage_geometry |-> geometry,
          stage_outline_offset |-> <<stage_outline_offset(top)>>,
          turbomachinery_top_outline |->
              top \o Shift(geometry.top_outline, stage_outline_offset(top)),
          turbomachinery_bottom_outline |->
              Shift(geometry.bottom_outline, stage_outline_offset(top)) \o bottom]

RECURSIVE outline_loop(_, _, _, _, _)
\* "for i in range(turbomachinery.N_stg)" from iteration i on; steps holds the
\* loop variables after each iteration done so far
outline_loop(turbomachinery, station_number, num_blades, i, steps) ==
    IF i >= turbomachinery.N_stg
    THEN steps
    ELSE outline_loop(turbomachinery, station_number, num_blades, i + 1,
            Append(steps,
                outline_step(i,
                    stage_geometry(turbomachinery.stages[i + 1],
                                   outline_next_stage(turbomachinery, i),
                                   station_number, num_blades),
                    IF i = 0 THEN <<>> ELSE steps[i].turbomachinery_top_outline,
                    IF i = 0 THEN <<>> ELSE steps[i].turbomachinery_bottom_outline)))

\* the loop variables of get_turbomachinery_outline after each iteration
outline_steps(turbomachinery, station_number, num_blades) ==
    outline_loop(turbomachinery, station_number, num_blades, 0, <<>>)

\* return np.concatenate((top, bottom)) of the outlines the loop leaves
outline_return(steps) ==
    IF steps = <<>>
    THEN <<>>
    ELSE steps[Len(steps)].turbomachinery_top_outline \o
         steps[Len(steps)].turbomachinery_bottom_outline

get_turbomachinery_outline(turbomachinery, station_number, num_blades) ==
    outline_return(outline_steps(turbomachinery, station_number, num_blades))

----------------------------------------------------------------------------
(* The outline composer as a state machine: a turbomachinery, a station   *)
(* and a blade count are drawn, and the static methods are called on its   *)
(* rows and stages.                                                        *)

MaxBlades == 2
MaxSpacing == 2
MaxStg == 3

\* a Turbomachinery: its stages and their number N_stg
Turbomachinery(stages) == [stages |-> stages, N_stg |-> Len(stages)]

\* airfoil sections: level, rising and falling from leading to trailing
\* point, the leading point first or not, two points sharing the minimum x
AirfoilShapes ==
    { <<Pt(Num(0), Num(0)), Pt(Num(1), Num(1)), Pt(Num(2), Num(0))>>,
      <<Pt(Num(1), Num(1)), Pt(Num(0), Num(0)), Pt(Num(3), Num(1))>>,
      <<Pt(Num(1), Num(2)), Pt(Num(3), Num(0)), Pt(Num(1), Num(1))>> }

\* rows of one station
Rows == {BladeRow(Num(s), <<a>>) : s \in 1..MaxSpacing, a \in AirfoilShapes}

\* per stage position the stage gap, and the row gap of every stage
GapPatterns == {<<<<2, 2, 2, 2>>, 2>>, <<<<2, 1, 4, 3>>, 0>>, <<<<1, 3, 2, 4>>, 1>>}

\* the rotor and the stator of a stage: a rotor of spacing 1 with any stator,
\* or two equal rows
RowPairs == {rs \in Rows \X Rows : rs[1].s = Num(1) \/ rs[2] = rs[1]}

\* machines of 1..MaxStg stages with the same two rows in every stage
Machines ==
    {Turbomachinery([i \in 1..n |-> Stage(rs[1], rs[2], Num(g[1][i]), Num(g[2]))]) :
        rs \in RowPairs, n \in 1..MaxStg, g \in GapPatterns}

\* leading and trailing edge gaps of the direct calls of row_geometry
EdgeGaps == {<<Num(0), Num(0)>>, <<Num(1), Num(2)>>, <<Rat(1, 2), Num(0)>>}

InitCFD ==
    /\ self = NoObject
    /\ input \in [turbomachinery : Machines, station_number : {0},
                  num_blades : 1..MaxBlades]
    /\ op = "none"
    /\ args = <<>>
    /\ ret = <<>>
    /\ locals = <<>>
    /\ raised = None

RowGeometry(row, station_number, leading_edge_gap, trailing_edge_gap, num_blades) ==
    /\ op' = "row_geometry"
    /\ args' = [row |-> row, station_number |-> station_number,
                leading_edge_gap |-> leading_edge_gap,
                trailing_edge_gap |-> trailing_edge_gap, num_blades |-> num_blades]
    /\ ret' = row_geometry(row, station_number, leading_edge_gap, trailing_edge_gap, num_blades)
    /\ raised' = None
    /\ locals' = <<>>
    /\ UNCHANGED <<self, input>>

StageGeometry(stage, next_stage, station_number, num_blades) ==
    /\ op' = "stage_geometry"
    /\ args' = [stage |-> stage, next_stage |-> next_stage,
                station_number |-> station_number, num_blades |-> num_blades]
    /\ ret' = stage_geometry(stage, next_stage, station_number, num_blades)
    /\ raised' = None
    /\ locals' = <<>>
    /\ UNCHANGED <<self, input>>

GetTurbomachineryOutline(turbomachinery, station_number, num_blades) ==
    /\ op' = "get_turbomachinery_outline"
    /\ args' = [turbomachinery |-> turbomachinery, station_number |-> station_number,
                num_blades |-> num_blades]
    /\ locals' = outline_steps(turbomachinery, station_number, num_blades)
    /\ ret' = outline_return(locals')
    /\ raised' = None
    /\ UNCHANGED <<self, input>>

NextCFD ==
    \/ \E row \in {input.turbomachinery.stages[1].rotor, input.turbomachinery.stages[1].stator},
          g \in EdgeGaps :
          RowGeometry(row, input.station_number, g[1], g[2], input.num_blades)
    \/ \E j \in {k \in 1..input.turbomachinery.N_stg : k \in {1, 2}} :
          StageGeometry(input.turbomachinery.stages[1], input.turbomachinery.stages[j],
                        input.station_number, input.num_blades)
    \/ GetTurbomachineryOutline(input.turbomachinery, input.station_number, input.num_blades)

SpecCFD == InitCFD /\ [][NextCFD]_vars

LeadingPnt(airfoil) == airfoil[ArgMin(Xs(airfoil))]
TrailingPnt(airfoil) == airfoil[ArgMax(Xs(airfoil))]

\* C10 (as claimed): in the geometry stage_geometry returns, for every
\* rotor/stator pair, the leading (minimum-x) point of the stator's first
\* airfoil has the y of the trailing (maximum-x) point of the rotor's first
\* airfoil.
C10_StatorLeadingMeetsRotorTrailing ==
    op = "stage_geometry" =>
        Eq(LeadingPnt(ret.airfoils[args.num_blades + 1])[2],
           TrailingPnt(ret.airfoils[1])[2])

----------------------------------------------------------------------------
(* Properties of the assembled outline *)

\* a machine whose stages all have the same rows and the same gaps
EqualStages(turbomachinery) ==
    \A i \in 1..turbomachinery.N_stg : turbomachinery.stages[i] = turbomachinery.stages[1]

\* the number of outline points a stage contributes to each chain
StagePoints == Len(locals[1].turbomachinery_top_outline)

\* C11 (as claimed): for an assembly of 3 equal stages, at every stage
\* boundary the last top point of stage i equals the first top point of stage
\* i+1, and the last bottom point of stage i+1 equals the first bottom point of
\* stage i, in x and in y.
C11_StageBoundariesContinuous ==
    (op = "get_turbomachinery_outline" /\ args.turbomachinery.N_stg = 3
        /\ EqualStages(args.turbomachinery)) =>
        LET top == locals[3].turbomachinery_top_outline
            bottom == locals[3].turbomachinery_bottom_outline
        IN  \A i \in 1..2 :
               /\ PtEq(top[StagePoints * i], top[StagePoints * i + 1])
               /\ PtEq(bottom[StagePoints * (3 - i)], bottom[StagePoints * (3 - i) + 1])

\* the gaps of a stage are not negative
NonNegativeGaps(stage) == Le(Zero, stage.stage_gap) /\ Le(Zero, stage.row_gap)

\* the number of outline points a row contributes to each chain
RowPoints == Len(ret.top_outline) \div 2

\* C12: for non-negative gaps, (a) in the geometry stage_geometry returns the
\* offset stator outline starts, on the top chain, and ends, on the bottom
\* chain, at the x of the rotor outline's right edge; (b) in
\* get_turbomachinery_outline, at every iteration after the first, the offset
\* stage outline starts at the x of the right edge of the outline accumulated
\* so far, on the top chain and on the bottom chain.
C12_NoAxialGap ==
    /\ (op = "stage_geometry" /\ NonNegativeGaps(args.stage)
            /\ NonNegativeGaps(args.next_stage)) =>
          /\ ret.top_outline[RowPoints + 1][1] = ret.top_outline[RowPoints][1]
          /\ ret.top_outline[RowPoints][1] = Max(Xs(SubSeq(ret.top_outline, 1, RowPoints)))
          /\ ret.bottom_outline[RowPoints][1] = ret.bottom_outline[RowPoints + 1][1]
          /\ ret.bottom_outline[RowPoints + 1][1] = ret.top_outline[RowPoints][1]
    /\ (op = "get_turbomachinery_outline"
            /\ \A i \in 1..args.turbomachinery.N_stg :
                  NonNegativeGaps(args.turbomachinery.stages[i])) =>
          \A i \in 1..(Len(locals) - 1) :
             LET before == locals[i].turbomachinery_top_outline
                 after == locals[i + 1].turbomachinery_top_outline
                 bottom_before == locals[i].turbomachinery_bottom_outline
                 bottom_after == locals[i + 1].turbomachinery_bottom_outline
                 added == Len(after) - Len(before)
             IN  /\ after[Len(before) + 1][1] = Max(Xs(before))
                 /\ after[Len(before) + 1][1] = before[Len(before)][1]
                 /\ bottom_after[added][1] = bottom_before[1][1]
                 /\ bottom_after[added][1] = Max(Xs(before))

C12_Witness ==
    /\ op = "get_turbomachinery_outline"
    /\ Len(locals) = 3
    /\ args.turbomachinery.stages[1].stage_gap # args.turbomachinery.stages[2].stage_gap
    /\ locals[3].turbomachinery_top_outline[2 * StagePoints + 1][1]
          = Max(Xs(locals[2].turbomachinery_top_outline))
    /\ Lt(Max(Xs(locals[1].turbomachinery_top_outline)),
          Max(Xs(locals[2].turbomachinery_top_outline)))
    /\ Lt(Zero, Max(Xs(locals[1].turbomachinery_top_outline)))

\* the stage after stage i (stages counted from 1), the stage itself for the
\* last one
Following(turbomachinery, i) ==
    IF i < turbomachinery.N_stg
    THEN turbomachinery.stages[i + 1]
    ELSE turbomachinery.stages[i]

\* the four axial gaps of a stage geometry, read off its top outline: each
\* row's outline runs from its left edge over the leading gap, the airfoil
\* width and the trailing gap
TopGaps(geometry) ==
    LET top == geometry.top_outline
        row == Len(top) \div 2
    IN  [rotor_leading |-> Sub(top[2][1], top[1][1]),
         rotor_trailing |-> Sub(top[row][1], top[row - 1][1]),
         stator_leading |-> Sub(top[row + 2][1], top[row + 1][1]),
         stator_trailing |-> Sub(top[2 * row][1], top[2 * row - 1][1])]

\* C23: get_turbomachinery_outline builds every stage but the last with the
\* stage after it as next_stage and the last stage with itself; in each
\* stage the rotor's leading gap is stage_gap/2, the rotor's trailing gap and
\* the stator's leading gap are row_gap/2, and the stator's trailing gap is
\* half the stage_gap of the following stage (its own for the last stage).
C23_NextStagePairing ==
    op = "get_turbomachinery_outline" =>
        /\ Len(locals) = args.turbomachinery.N_stg
        /\ \A i \in 1..args.turbomachinery.N_stg :
              LET stage == args.turbomachinery.stages[i]
                  following == Following(args.turbomachinery, i)
                  gaps == TopGaps(locals[i].stage_geometry)
              IN  /\ locals[i].stage_geometry =
                         stage_geometry(stage, following, args.station_number,
                                        args.num_blades)
                  /\ gaps.rotor_leading = Half(stage.stage_gap)
                  /\ gaps.rotor_trailing = Half(stage.row_gap)
                  /\ gaps.stator_leading = Half(stage.row_gap)
                  /\ gaps.stator_trailing = Half(following.stage_gap)

C23_Witness ==
    /\ op = "get_turbomachinery_outline"
    /\ args.turbomachinery.N_stg = 3
    /\ args.turbomachinery.stages[2].stage_gap = Num(1)
    /\ args.turbomachinery.stages[3].stage_gap = Num(4)
    /\ TopGaps(locals[1].stage_geometry).stator_trailing = Rat(1, 2)
    /\ TopGaps(locals[2].stage_geometry).stator_trailing = Num(2)
    /\ TopGaps(locals[3].stage_geometry).stator_trailing = Num(2)
    /\ TopGaps(locals[3].stage_geometry).rotor_leading = Num(2)

\* the offset of stage k's outlines: the largest x of the top chain of the
\* stages before it, none for the first stage
OffsetOfStage(steps, k) ==
    IF k = 1
    THEN Pt(Zero, Zero)
    ELSE Pt(Max(Xs(steps[k - 1].turbomachinery_top_outline)), Zero)

RECURSIVE TopChain(_, _)
\* the offset top outlines of stages 1..k in stage order
TopChain(steps, k) ==
    IF k = 0
    THEN <<>>
    ELSE TopChain(steps, k - 1) \o
         Shift(steps[k].stage_geometry.top_outline, OffsetOfStage(steps, k))

RECURSIVE BottomChain(_, _)
\* the offset bottom outlines of stages k..1 in reverse stage order
BottomChain(steps, k) ==
    IF k = 0
    THEN <<>>
    ELSE Shift(steps[k].stage_geometry.bottom_outline, OffsetOfStage(steps, k)) \o
         BottomChain(steps, k - 1)

NonDecreasing(xs) == \A i \in 1..(Len(xs) - 1) : Le(xs[i], xs[i + 1])
NonIncreasing(xs) == \A i \in 1..(Len(xs) - 1) : Le(xs[i + 1], xs[i])

\* C24: for non-negative gaps, after every iteration k of
\* get_turbomachinery_outline the top chain is the offset top outlines of
\* stages 1..k in stage order and the bottom chain the offset bottom outlines
\* of stages k..1, each stage offset by the largest x of the top chain built
\* before it; the returned array is the final top chain followed by the final
\* bottom chain, with x non-decreasing along the top part and non-increasing
\* along the bottom part.
C24_ChainsInOrder ==
    (op = "get_turbomachinery_outline"
        /\ \A i \in 1..args.turbomachinery.N_stg :
              NonNegativeGaps(args.turbomachinery.stages[i])) =>
        LET top == locals[Len(locals)].turbomachinery_top_outline
            bottom == locals[Len(locals)].turbomachinery_bottom_outline
        IN  /\ \A k \in 1..Len(locals) :
                  /\ locals[k].turbomachinery_top_outline = TopChain(locals, k)
                  /\ locals[k].turbomachinery_bottom_outline = BottomChain(locals, k)
                  /\ k > 1 => locals[k].stage_outline_offset = <<OffsetOfStage(locals, k)>>
            /\ ret = top \o bottom
            /\ NonDecreasing(Xs(SubSeq(ret, 1, Len(top))))
            /\ NonIncreasing(Xs(SubSeq(ret, Len(top) + 1, Len(ret))))

C24_Witness ==
    /\ op = "get_turbomachinery_outline"
    /\ Len(locals) = 3
    /\ locals[3].turbomachinery_bottom_outline = BottomChain(locals, 3)
    /\ Lt(Zero, OffsetOfStage(locals, 2)[1])
    /\ Lt(OffsetOfStage(locals, 2)[1], OffsetOfStage(locals, 3)[1])
    /\ Lt(ret[1][1], ret[Len(ret) \div 2][1])
    /\ ret[Len(ret) \div 2 + 1][1] = ret[Len(ret) \div 2][1]
    /\ ret[Len(ret)][1] = Zero

----------------------------------------------------------------------------
(* Attachments with a level lower flank, beta = 0: all radii and lengths   *)
(* are positive and the chord fits the disk. get_line is called with the   *)
(* arguments get_stage passes it for the lower flank.                      *)

LevelScalars ==
    {Scalars(g, Zero, Num(z[1]), Num(1), Num(1), Num(z[2]), Num(1), Num(k * z[3]), n, Num(z[3])) :
        g \in FlankAngles, z \in Sizes, k \in {1, 2}, n \in 1..MaxStages}

InitLevel ==
    /\ self \in {post_init(s) : s \in LevelScalars}
    /\ input = NoInput
    /\ op = "__post_init__"
    /\ args = <<>>
    /\ ret = <<>>
    /\ locals = <<>>
    /\ raised = None

NextLevel ==
    \/ \E n \in ArcPointCounts, e \in BOOLEAN : GetStage(n, e)
    \/ \E n \in ArcPointCounts : GetDoveArc(n)
    \/ \E n \in ArcPointCounts, sp \in StartPoints(self) : GetTopArc(sp, n)
    \/ \E n \in ArcPointCounts : GetCoords(n)
    \/ GetLine(Linspace(self.d.origin[2], self.d.outer_circle_lower_tangent[2], 2, FALSE),
               self.d.origin, self.d.outer_circle_lower_tangent, None)

SpecLevel == InitLevel /\ [][NextLevel]_vars

AllFinite(arr) == \A i \in 1..Len(arr) : PtFinite(arr[i])

\* C26 (as claimed): get_line called with two points of distinct x, a
\* horizontal pair included, returns only finite coordinates or fails with an
\* error; and get_stage and get_coords of an attachment with positive radii
\* and lengths return only finite coordinates.
C26_NoSilentNonFinite ==
    /\ (op = "get_line" /\ args.point1[1] # args.point2[1]) =>
          (raised # None \/ AllFinite(ret))
    /\ (op \in {"get_stage", "get_coords"} /\ PositiveParams(self.p)) =>
          (raised # None \/ AllFinite(ret))

----------------------------------------------------------------------------
(* Properties of a row's geometry *)

\* the airfoil section row_geometry was called on
ArgAirfoil == args.row.airfoils[args.station_number + 1]

\* h = row.s * num_blades
ArgHeight == Mul(args.row.s, Num(args.num_blades))

\* w = max x - min x of the airfoil
ArgWidth == Sub(Max(Xs(ArgAirfoil)), Min(Xs(ArgAirfoil)))

\* rise = y of the airfoil's maximum-x point minus y of its minimum-x point,
\* the first such point where several share the extreme x
ArgRise == Sub(TrailingPnt(ArgAirfoil)[2], LeadingPnt(ArgAirfoil)[2])

\* C13: row_geometry returns a top outline of exactly four points, in order
\* (0, h/2), (leading_gap, h/2), (leading_gap + w, h/2 + rise),
\* (leading_gap + w + trailing_gap, h/2 + rise).
C13_TopOutlineFourPoints ==
    op = "row_geometry" =>
        /\ Len(ret.top_outline) = 4
        /\ PtEq(ret.top_outline[1], Pt(Zero, Half(ArgHeight)))
        /\ PtEq(ret.top_outline[2], Pt(args.leading_edge_gap, Half(ArgHeight)))
        /\ PtEq(ret.top_outline[3],
                Pt(Add(args.leading_edge_gap, ArgWidth), Add(Half(ArgHeight), ArgRise)))
        /\ PtEq(ret.top_outline[4],
                Pt(Add(Add(args.leading_edge_gap, ArgWidth), args.trailing_edge_gap),
                   Add(Half(ArgHeight), ArgRise)))

C13_Witness ==
    /\ op = "row_geometry"
    /\ args.num_blades = 2 /\ args.row.s = Num(2)
    /\ ArgRise = Num(-2)
    /\ args.leading_edge_gap = Num(1) /\ args.trailing_edge_gap = Num(2)
    /\ ret.top_outline = <<Pt(Num(0), Num(2)), Pt(Num(1), Num(2)),
                           Pt(Num(3), Num(0)), Pt(Num(5), Num(0))>>

\* C14 (as claimed): the bottom outline is the mirror of the top outline in
\* reversed order: bottom_outline[k] has the x and the negated y of
\* top_outline[3-k], for every airfoil.
C14_BottomMirrorsTop ==
    op = "row_geometry" =>
        \A k \in 0..3 :
            /\ ret.bottom_outline[k + 1][1] = ret.top_outline[4 - k][1]
            /\ ret.bottom_outline[k + 1][2] = Neg(ret.top_outline[4 - k][2])

\* C14 (amended): the bottom outline is the top outline in reversed order
\* moved down by the height h: bottom_outline[k] has the x of top_outline[3-k]
\* and its y less h; it has the negated y exactly where top_outline[3-k] is at
\* y = h/2, which for the two trailing points means a rise of zero.
C14_BottomIsTopLowered ==
    op = "row_geometry" =>
        \A k \in 0..3 :
            /\ ret.bottom_outline[k + 1][1] = ret.top_outline[4 - k][1]
            /\ ret.bottom_outline[k + 1][2] = Sub(ret.top_outline[4 - k][2], ArgHeight)
            /\ (ret.bottom_outline[k + 1][2] = Neg(ret.top_outline[4 - k][2]))
                  <=> (k \in {2, 3} \/ ArgRise = Zero)

C14_Witness ==
    /\ op = "row_geometry"
    /\ ArgRise = Num(1) /\ ArgHeight = Num(2)
    /\ ret.top_outline[4][2] = Num(2)
    /\ ret.bottom_outline[1][2] = Num(0)

\* C15: row_geometry returns exactly num_blades airfoil copies; copy i is
\* copy 0 moved by (0, -i * row.s); every copy has minimum x = leading_edge_gap;
\* the leading point of copy 0 has y = h/2 - row.s/2; and the leading point of
\* every copy lies strictly between the bottom and the top outline's y at the
\* leading edge.
C15_AirfoilCopies ==
    op = "row_geometry" =>
        /\ Len(ret.airfoils) = args.num_blades
        /\ \A i \in 0..(args.num_blades - 1) :
              /\ ret.airfoils[i + 1] =
                     Shift(ret.airfoils[1], Pt(Zero, Neg(Mul(Num(i), args.row.s))))
              /\ Min(Xs(ret.airfoils[i + 1])) = args.leading_edge_gap
              /\ Lt(ret.bottom_outline[3][2], LeadingPnt(ret.airfoils[i + 1])[2])
              /\ Lt(LeadingPnt(ret.airfoils[i + 1])[2], ret.top_outline[2][2])
        /\ LeadingPnt(ret.airfoils[1])[2] = Sub(Half(ArgHeight), Half(args.row.s))

C15_Witness ==
    /\ op = "row_geometry"
    /\ args.num_blades = 2 /\ args.row.s = Num(2)
    /\ args.leading_edge_gap = Rat(1, 2)
    /\ LeadingPnt(ArgAirfoil) # ArgAirfoil[1]
    /\ LeadingPnt(ret.airfoils[1]) = Pt(Rat(1, 2), Num(1))
    /\ LeadingPnt(ret.airfoils[2]) = Pt(Rat(1, 2), Num(-1))

====
